---- MODULE Spec2Model ----
(***************************************************************************)
(* Model of the looper emulator (lib/lem.py, lib/tracks.py, lib/utils.py). *)
(*                                                                         *)
(* A frame (one sample per channel) is modelled as one integer.  The live  *)
(* input frame processed at global frame g carries the label g + 1, so     *)
(* that the origin of every recorded frame can be read off the data; the   *)
(* silence appended by _stop_recording is 0.                               *)
(***************************************************************************)
EXTENDS Integers, Sequences, FiniteSets, TLC

\* ------------------------------------------------------------------ bounds
MaxLenBeat == 5          \* beat lengths explored: MaxLenBeat-1 and MaxLenBeat
MaxFrames == 5          \* the frame counter is explored up to MaxFrames frames
MaxCmds == 3          \* number of commands pushed in one behaviour

MaxArgBeat == 3          \* beat lengths given to post_production: 2..MaxArgBeat
MaxArgLen == 6          \* data lengths given to the functions under test
MaxArgTime == 5          \* frame times given to the functions under test
MaxPeriods == 2          \* track lengths added to or taken from a frame
MaxCapacity == 4         \* capacities of the circular buffer under test
MaxWritten == 11          \* frames written to the circular buffer under test
MaxBpmArg == 401         \* values entered in the BPM dialog: 0..MaxBpmArg

LenBeats == (MaxLenBeat - 1)..MaxLenBeat

\* ------------------------------------------------- Python / numpy helpers
None == -1               \* Optional[int] = None (all times are >= 0)
Uninit == -999           \* a cell of np.empty that was never written

Min(a, b) == IF a < b THEN a ELSE b
Max(a, b) == IF a > b THEN a ELSE b

\* Python's s[a:b] on a sequence, negative and out-of-range indices included
PySliceIdx(i, n) == IF i < 0 THEN Max(0, n + i) ELSE Min(i, n)
PySlice(s, a, b) ==
    LET lo == PySliceIdx(a, Len(s))
        hi == PySliceIdx(b, Len(s))
    IN  IF lo < hi THEN SubSeq(s, lo + 1, hi) ELSE << >>

\* Python's a % b for b > 0: the result is in 0..b-1 also for negative a
PyModTrunc(a, b) == IF a >= 0 THEN a % b ELSE 0 - ((0 - a) % b)
PyMod(a, b) == a % b

Zeros(n) == [i \in 1..n |-> 0]

\* the cast of a float to int16 done by outdata[:] = ...: truncation to zero
TruncDiv(x, n) == IF x >= 0 THEN x \div n ELSE 0 - ((0 - x) \div n)

\* ------------------------------------------------------------- lib/utils.py
on_beat_strict(current_frame_, len_beat_, frames) ==
    LET position_in_beat == PyMod(current_frame_, len_beat_)
    IN  position_in_beat + frames > len_beat_

on_beat(current_frame_, len_beat_, frames) ==
    LET position_in_beat == PyMod(current_frame_, len_beat_)
    IN  position_in_beat + frames >= len_beat_

is_in_first_half_strict(current_frame_, len_beat_) ==
    LET half_beat == len_beat_ \div 2
        position_in_beat == PyMod(current_frame_, len_beat_)
    IN  position_in_beat < half_beat

is_in_first_half_of_beat(current_frame_, len_beat_) ==
    LET half_beat == len_beat_ \div 2
        position_in_beat == PyMod(current_frame_, len_beat_)
    IN  position_in_beat <= half_beat

\* Queue: the list _items
Queue_push(items, item) == Append(items, item)
Queue_pop_last(items) ==
    [item |-> items[Len(items)], items |-> SubSeq(items, 1, Len(items) - 1)]
Queue_pop(items) == [item |-> Head(items), items |-> Tail(items)]
Queue_empty(items) == items = << >>

\* AudioCircularBuffer: [data, index]; the capacity is Len(data)
NewAudioCircularBuffer(length) ==
    [data |-> [i \in 1..length |-> Uninit], index |-> 0]

\* write: the result carries err = TRUE when NotImplementedError is raised
AudioCircularBuffer_write_nowrap(buf, data) ==
    LET length == Len(buf.data)
        len_data == Len(data)
        total_len == buf.index + len_data
    IN  IF len_data > length
        THEN [buf |-> buf, err |-> TRUE]
        ELSE [buf |-> [data |-> [i \in 1..length |->
                                   IF i > buf.index /\ i <= total_len
                                   THEN data[i - buf.index] ELSE buf.data[i]],
                       index |-> PyMod(total_len, length)],
              err |-> FALSE]

AudioCircularBuffer_write_strict(buf, data) ==
    LET length == Len(buf.data)
        len_data == Len(data)
        total_len == buf.index + len_data
    IN  IF len_data >= length
        THEN [buf |-> buf, err |-> TRUE]
        ELSE [buf |-> [data |-> [i \in 1..length |->
                                   IF i > buf.index /\ i <= total_len
                                   THEN data[i - buf.index]
                                   ELSE IF i <= total_len - length
                                   THEN data[length - buf.index + i]
                                   ELSE buf.data[i]],
                       index |-> PyMod(total_len, length)],
              err |-> FALSE]

AudioCircularBuffer_write(buf, data) ==
    LET length == Len(buf.data)
        len_data == Len(data)
        total_len == buf.index + len_data
    IN  IF len_data > length
        THEN [buf |-> buf, err |-> TRUE]
        ELSE IF total_len > length
        THEN LET left == length - buf.index
                 overflown == len_data - left
                 d1 == [i \in 1..length |->
                          IF i > buf.index THEN data[i - buf.index]
                          ELSE buf.data[i]]
                 d2 == [i \in 1..length |->
                          IF i <= overflown THEN data[left + i] ELSE d1[i]]
             IN  [buf |-> [data |-> d2, index |-> PyMod(total_len, length)],
                  err |-> FALSE]
        ELSE [buf |-> [data |-> [i \in 1..length |->
                                   IF i > buf.index /\ i <= total_len
                                   THEN data[i - buf.index] ELSE buf.data[i]],
                       index |-> PyMod(total_len, length)],
              err |-> FALSE]

AudioCircularBuffer_start_to_index(buf) == PySlice(buf.data, 0, buf.index)

AudioCircularBuffer_position(buf) == buf.index

\* ------------------------------------------------------------ lib/tracks.py
\* RecordedTrack().  The field g is bookkeeping of the verification only: the
\* ids of the commands that touched the capture and, when the capture was
\* started over a draining one, the pre-roll taken at that Start.
NoSup == [at |-> None, pre |-> << >>, id |-> 0]
NewRecordedTrack ==
    [data |-> << >>, first_frame_time |-> None, start_rec_time |-> None,
     stop_rec_time |-> None,
     g |-> [startId |-> 0, stopId |-> 0, sup |-> NoSup, over |-> FALSE]]

RecordedTrack_append(rt, data) == [rt EXCEPT !.data = @ \o data]

RecordedTrack_is_complete(rt) ==
    /\ rt.first_frame_time # None
    /\ rt.start_rec_time # None
    /\ rt.stop_rec_time # None
    /\ Len(rt.data) # 0

PlayingTrack(data, playing_from_frame) ==
    [data |-> data, playing_from_frame |-> playing_from_frame]

PlayingTrack_slice_trunc(track, from_frame, frames) ==
    LET length == Len(track.data)
        ff == from_frame - track.playing_from_frame
        start == PyModTrunc(ff, length)
        end == PyModTrunc(ff + frames, length)
    IN  IF end < start
        THEN PySlice(track.data, start, length) \o PySlice(track.data, 0, end)
        ELSE PySlice(track.data, start, end)

PlayingTrack_slice(track, from_frame, frames) ==
    LET length == Len(track.data)
        ff == from_frame - track.playing_from_frame
        start == PyMod(ff, length)
        end == PyMod(ff + frames, length)
    IN  IF end < start
        THEN PySlice(track.data, start, length) \o PySlice(track.data, 0, end)
        ELSE PySlice(track.data, start, end)

\* --------------------------------------------- LoopStreamManager, control
\* post_production: kind is "error" (IncompleteRecordedTrackError), "none"
\* (the rounding left nothing) or "track"
post_production_half(recorded_track, len_beat_) ==
    IF ~RecordedTrack_is_complete(recorded_track)
    THEN [kind |-> "error"]
    ELSE LET first0 == recorded_track.first_frame_time
             start0 == recorded_track.start_rec_time
             stop0 == recorded_track.stop_rec_time
             data == recorded_track.data
             length == Len(data)
             half_beat == len_beat_ \div 2
             roundUp == ~(start0 - first0 < half_beat)
             start == IF roundUp THEN len_beat_ ELSE 0
             first == IF roundUp THEN first0 + len_beat_ ELSE first0
             stop == IF PyMod(stop0 - first, len_beat_) < half_beat
                     THEN length - half_beat ELSE length
             cut == PySlice(data, start, stop)
         IN  IF Len(cut) # 0
             THEN [kind |-> "track", track |-> PlayingTrack(cut, first)]
             ELSE [kind |-> "none"]

post_production_keep(recorded_track, len_beat_) ==
    IF ~RecordedTrack_is_complete(recorded_track)
    THEN [kind |-> "error"]
    ELSE LET first0 == recorded_track.first_frame_time
             start0 == recorded_track.start_rec_time
             stop0 == recorded_track.stop_rec_time
             data == recorded_track.data
             length == Len(data)
             half_beat == len_beat_ \div 2
             roundUp == ~(start0 - first0 < half_beat)
             start == IF roundUp THEN len_beat_ ELSE 0
             first == IF roundUp THEN first0 + len_beat_ ELSE first0
             stop == IF PyMod(stop0 - first, len_beat_) < half_beat
                     THEN length ELSE length
             cut == PySlice(data, start, stop)
         IN  IF Len(cut) # 0
             THEN [kind |-> "track", track |-> PlayingTrack(cut, first)]
             ELSE [kind |-> "none"]

post_production(recorded_track, len_beat_) ==
    IF ~RecordedTrack_is_complete(recorded_track)
    THEN [kind |-> "error"]
    ELSE LET first0 == recorded_track.first_frame_time
             start0 == recorded_track.start_rec_time
             stop0 == recorded_track.stop_rec_time
             data == recorded_track.data
             length == Len(data)
             half_beat == len_beat_ \div 2
             roundUp == ~(start0 - first0 < half_beat)
             start == IF roundUp THEN len_beat_ ELSE 0
             first == IF roundUp THEN first0 + len_beat_ ELSE first0
             stop == IF PyMod(stop0 - first, len_beat_) < half_beat
                     THEN length - len_beat_ ELSE length
             cut == PySlice(data, start, stop)
         IN  IF Len(cut) # 0
             THEN [kind |-> "track", track |-> PlayingTrack(cut, first)]
             ELSE [kind |-> "none"]


\* ------------------------------------------------------------- Lem.__init__
\* initialize_metronome: the sample read from the file, cut or zero-padded
\* to one beat
initialize_metronome_nocut(sample, len_beat_) ==
    IF Len(sample) <= len_beat_
    THEN PlayingTrack(sample \o Zeros(len_beat_ - Len(sample)), 0)
    ELSE PlayingTrack(sample, 0)

initialize_metronome(sample, len_beat_) ==
    IF Len(sample) <= len_beat_
    THEN PlayingTrack(sample \o Zeros(len_beat_ - Len(sample)), 0)
    ELSE PlayingTrack(PySlice(sample, 0, len_beat_), 0)

\* the content of the metronome file
MetronomeSample == << 0 - 3, 0 - 5 >>

\* ------------------------------------------------------------------- state
VARIABLES
    len_beat,               \* LoopStreamManager._len_beat
    current_frame,          \* LoopStreamManager._current_frame
    event_queue,            \* _event_queue: records [ev, id], id = push order
    recording,              \* _recording
    stopping_recording,     \* _stopping_recording
    recorded_track,         \* _recorded_track
    recorded_tracks_queue,  \* _recorded_tracks_queue
    last_beat,              \* _last_beat (AudioCircularBuffer)
    lem_tracks,             \* Lem._tracks: the one list object Lem mutates
    tracks_ref,             \* LoopStreamManager._tracks: "own" or "lem"
    tracks_copy_ref,        \* LoopStreamManager._tracks_copy: "own" or "lem"
    tracks_lock,            \* _tracks_lock is held
    published,              \* content of the last two lists update_tracks set
    outdata,                \* the output block of the last cycle
    status,                 \* the status flag of the last cycle
    callback_raised,        \* an exception left the callback: stream aborted
    cb,                     \* position of the audio thread inside callback
    waiting,                \* ids of the Stops whose stop_recording call polls
    pushed,                 \* number of commands pushed so far
    consumed,               \* ids of the commands popped by the callback
    lem_op,                 \* position of the control thread inside Lem
    returned,               \* what the last Lem.stop_recording call returned
    stream_active,          \* _stream_active
    stream_thread,          \* _stream_thread: "none", "running", "terminated"
    end_stream_pc,          \* position of the control thread inside end_stream
    fn                      \* argument and result of a function under test

vars == << len_beat, current_frame, event_queue, recording,
           stopping_recording, recorded_track, recorded_tracks_queue,
           last_beat, lem_tracks, tracks_ref, tracks_copy_ref, tracks_lock,
           published, outdata, status, callback_raised, cb, waiting, pushed,
           consumed, lem_op, returned, stream_active, stream_thread,
           end_stream_pc, fn >>

audioVars == << current_frame, recording, stopping_recording, recorded_track,
                last_beat, outdata, status, callback_raised, cb, consumed >>
trackVars == << lem_tracks, tracks_ref, tracks_copy_ref, tracks_lock,
                published >>
ctlVars == << lem_op, returned >>
streamVars == << stream_active, stream_thread, end_stream_pc >>

NoFn == [op |-> "none"]
CbIdle == [pc |-> "idle"]
LemIdle == [pc |-> "idle"]
NoReturn == [id |-> 0, value |-> "none"]

\* the list object a reference of the stream manager denotes: its own empty
\* list made in __init__, or the list of Lem
Deref(ref) == IF ref = "lem" THEN lem_tracks ELSE << >>

\* the state after Lem.initialize_metronome(): metronome appended and
\* published, stream not started yet
InitManager(B, sample) ==
    /\ len_beat = B
    /\ current_frame = 0
    /\ event_queue = << >>
    /\ recording = FALSE
    /\ stopping_recording = FALSE
    /\ recorded_track = NewRecordedTrack
    /\ recorded_tracks_queue = << >>
    /\ last_beat = NewAudioCircularBuffer(B)
    /\ lem_tracks = << initialize_metronome(sample, B) >>
    /\ tracks_ref = "lem"
    /\ tracks_copy_ref = "own"
    /\ tracks_lock = FALSE
    /\ published = [cur |-> << initialize_metronome(sample, B) >>,
                    prev |-> << >>]
    /\ outdata = << >>
    /\ status = "none"
    /\ callback_raised = FALSE
    /\ cb = CbIdle
    /\ waiting = {}
    /\ pushed = 0
    /\ consumed = << >>
    /\ lem_op = LemIdle
    /\ returned = NoReturn
    /\ stream_active = TRUE
    /\ end_stream_pc = "idle"

\* the state after Lem(bpm) returned: the stream thread runs
InitLem(B, sample) ==
    /\ InitManager(B, sample)
    /\ stream_thread = "running"

Init ==
    /\ \E B \in LenBeats : InitLem(B, MetronomeSample)
    /\ fn = NoFn

\* ------------------------------------------- LoopStreamManager, audio side
\* The recording part of the stream manager, as a record the handlers map:
\* [recording, stopping_recording, recorded_track, recorded_tracks_queue]
_prepare_new_recording(s) ==
    [s EXCEPT !.recorded_track = NewRecordedTrack,
              !.recording = FALSE,
              !.stopping_recording = FALSE]

_finish_recording_no_push(s) == _prepare_new_recording(s)

_finish_recording_same_object(s) ==
    [s EXCEPT !.recorded_tracks_queue = Queue_push(@, s.recorded_track),
              !.recording = FALSE,
              !.stopping_recording = FALSE]

_finish_recording(s) ==
    _prepare_new_recording(
        [s EXCEPT !.recorded_tracks_queue =
                      Queue_push(@, s.recorded_track)])

_initialize_recording_keep(s, cur, buf) ==
    [s EXCEPT !.recorded_track =
                 RecordedTrack_append(
                     [@ EXCEPT !.first_frame_time =
                                   cur - AudioCircularBuffer_position(buf),
                               !.start_rec_time = cur],
                     AudioCircularBuffer_start_to_index(buf)),
              !.recording = TRUE]

_initialize_recording(s, cur, buf) ==
    LET s1 == IF s.stopping_recording THEN _prepare_new_recording(s) ELSE s
    IN  [s1 EXCEPT !.recorded_track =
                      RecordedTrack_append(
                          [@ EXCEPT !.first_frame_time =
                                        cur - AudioCircularBuffer_position(buf),
                                    !.start_rec_time = cur],
                          AudioCircularBuffer_start_to_index(buf)),
                   !.recording = TRUE]

_stop_recording_twice(s, cur, B) ==
    LET s1 == [s EXCEPT !.recorded_track.stop_rec_time = cur]
    IN  IF is_in_first_half_of_beat(cur, B)
        THEN [_finish_recording(
                 [s1 EXCEPT !.recorded_track =
                     RecordedTrack_append(@, Zeros(B - PyMod(cur, B)))])
              EXCEPT !.stopping_recording = TRUE]
        ELSE [s1 EXCEPT !.stopping_recording = TRUE]

_stop_recording_pad_beat(s, cur, B) ==
    LET s1 == [s EXCEPT !.recorded_track.stop_rec_time = cur]
    IN  IF is_in_first_half_of_beat(cur, B)
        THEN _finish_recording(
                 [s1 EXCEPT !.recorded_track =
                     RecordedTrack_append(@, Zeros(B))])
        ELSE [s1 EXCEPT !.stopping_recording = TRUE]

_stop_recording(s, cur, B) ==
    LET s1 == [s EXCEPT !.recorded_track.stop_rec_time = cur]
    IN  IF is_in_first_half_of_beat(cur, B)
        THEN _finish_recording(
                 [s1 EXCEPT !.recorded_track =
                     RecordedTrack_append(@, Zeros(B - PyMod(cur, B)))])
        ELSE [s1 EXCEPT !.stopping_recording = TRUE]

\* the live input of a cycle: the frame processed at global frame g is g + 1
Input(cur, frames) == [i \in 1..frames |-> cur + i]

\* the list slice_and_mix reads after its probe of the lock found it held
\* (locked) or free
TracksRead(locked) ==
    IF ~locked THEN Deref(tracks_ref) ELSE Deref(tracks_copy_ref)

\* the sum, sample by sample, of the input and the slices
SumSlices(indata, sliced, frames) ==
    LET Sum[k \in 0..Len(sliced)] ==
            IF k = 0 THEN indata
            ELSE [i \in 1..frames |-> Sum[k - 1][i] + sliced[k][i]]
    IN  Sum[Len(sliced)]

\* np.mean(...) assigned to the int16 output: the mean cut to an integer
MeanToInt16_floor(sum, n) == sum \div n
MeanToInt16(sum, n) == TruncDiv(sum, n)

\* slice_and_mix past the probe of the lock: np.mean over indata and one
\* slice per track, assigned to the int16 output; it raises when a slice is
\* not `frames` long
slice_and_mix(indata, frames, cur, locked) ==
    LET tracks == TracksRead(locked)
        sliced == [k \in 1..Len(tracks) |->
                      PlayingTrack_slice(tracks[k], cur, frames)]
    IN  IF \E k \in 1..Len(tracks) : Len(sliced[k]) # frames
        THEN [err |-> TRUE, out |-> << >>]
        ELSE [err |-> FALSE,
              out |-> [i \in 1..frames |->
                          MeanToInt16(SumSlices(indata, sliced, frames)[i],
                                      Len(tracks) + 1)]]

\* the bookkeeping stamped on the capture a command acts on
StampStart(s, pre, id, cur, buf) ==
    [s EXCEPT !.recorded_track.g.startId = id,
              !.recorded_track.g.over = pre.recording /\ ~pre.stopping_recording,
              !.recorded_track.g.sup =
                  IF pre.stopping_recording
                  THEN [at |-> cur,
                        pre |-> AudioCircularBuffer_start_to_index(buf),
                        id |-> id]
                  ELSE @]
StampStop(s, id) == [s EXCEPT !.recorded_track.g.stopId = id]

NoEvent == [ev |-> "NONE", id |-> 0]

\* the recording part of the stream manager after the command handling of a
\* cycle (the `if not self._event_queue.empty()` block)
HandleEvent(s0, event, cur, B, buf) ==
    IF event.ev = "START"
    THEN StampStart(_initialize_recording(s0, cur, buf),
                    s0, event.id, cur, buf)
    ELSE IF event.ev = "STOP"
    THEN _stop_recording(StampStop(s0, event.id), cur, B)
    ELSE s0

UnderflowCycle_writes(frames) ==
    /\ outdata' = Zeros(frames)
    /\ status' = "underflow"
    /\ last_beat' = AudioCircularBuffer_write(
                        last_beat, Input(current_frame, frames)).buf
    /\ UNCHANGED << current_frame, event_queue, recording, stopping_recording,
                    recorded_track, recorded_tracks_queue,
                    callback_raised, cb, consumed >>

\* the callback returning at once on output underflow
UnderflowCycle(frames) ==
    /\ outdata' = Zeros(frames)
    /\ status' = "underflow"
    /\ UNCHANGED << current_frame, event_queue, recording, stopping_recording,
                    recorded_track, recorded_tracks_queue, last_beat,
                    callback_raised, cb, consumed >>

\* the callback past the underflow test, up to the probe of the lock in
\* slice_and_mix; st is the status flag it was given
Cycle(frames, st) ==
    LET hasEv == ~Queue_empty(event_queue)
        popped == Queue_pop(event_queue)
        event == IF hasEv THEN popped.item ELSE NoEvent
        s0 == [recording |-> recording,
               stopping_recording |-> stopping_recording,
               recorded_track |-> recorded_track,
               recorded_tracks_queue |-> recorded_tracks_queue]
        s1 == HandleEvent(s0, event, current_frame, len_beat, last_beat)
        indata == Input(current_frame, frames)
        s2 == IF s1.recording
              THEN [s1 EXCEPT !.recorded_track =
                                  RecordedTrack_append(@, indata)]
              ELSE s1
        s3 == IF s2.stopping_recording
                 /\ on_beat(current_frame, len_beat, frames)
              THEN _finish_recording(
                       [s2 EXCEPT !.recorded_track.data =
                           PySlice(@, 0, Len(@) - PyMod(Len(@), len_beat))])
              ELSE s2
        w == AudioCircularBuffer_write(last_beat, indata)
    IN  /\ event_queue' = IF hasEv THEN popped.items ELSE event_queue
        /\ consumed' = IF hasEv THEN Append(consumed, event.id) ELSE consumed
        /\ recording' = s3.recording
        /\ stopping_recording' = s3.stopping_recording
        /\ recorded_track' = s3.recorded_track
        /\ recorded_tracks_queue' = s3.recorded_tracks_queue
        /\ last_beat' = w.buf
        /\ status' = st
        /\ callback_raised' = w.err
        /\ cb' = IF w.err THEN CbIdle
                 ELSE [pc |-> "probed", frames |-> frames,
                       locked |-> tracks_lock]
        /\ UNCHANGED << outdata, current_frame >>

\* an invocation of callback(indata, outdata, frames, time, status): up to
\* its return on underflow, or up to the probe of the lock
Callback_no_return(frames, underflow) ==
    /\ stream_thread = "running"
    /\ ~callback_raised
    /\ cb.pc = "idle"
    /\ current_frame + frames <= MaxFrames
    /\ Cycle(frames, IF underflow THEN "underflow" ELSE "ok")
    /\ UNCHANGED << len_beat, trackVars, ctlVars, streamVars, waiting,
                    pushed, fn >>

Callback(frames, underflow) ==
    /\ stream_thread = "running"
    /\ ~callback_raised
    /\ cb.pc = "idle"
    /\ current_frame + frames <= MaxFrames
    /\ IF underflow THEN UnderflowCycle(frames) ELSE Cycle(frames, "ok")
    /\ UNCHANGED << len_beat, trackVars, ctlVars, streamVars, waiting,
                    pushed, fn >>

Callback_mix_stuck ==
    /\ cb.pc = "probed"
    /\ LET indata == Input(current_frame, cb.frames)
           mix == slice_and_mix(indata, cb.frames, current_frame, cb.locked)
       IN  /\ callback_raised' = mix.err
           /\ outdata' = IF mix.err THEN outdata ELSE mix.out
           /\ current_frame' = current_frame
    /\ cb' = CbIdle
    /\ UNCHANGED << len_beat, event_queue, recording, stopping_recording,
                    recorded_track, recorded_tracks_queue, last_beat, status,
                    consumed, trackVars, ctlVars, streamVars, waiting,
                    pushed, fn >>

\* the rest of the invocation: the list is read and mixed, the output
\* written and the frame counter advanced
Callback_mix ==
    /\ cb.pc = "probed"
    /\ LET indata == Input(current_frame, cb.frames)
           mix == slice_and_mix(indata, cb.frames, current_frame, cb.locked)
       IN  /\ callback_raised' = mix.err
           /\ outdata' = IF mix.err THEN outdata ELSE mix.out
           /\ current_frame' = IF mix.err THEN current_frame
                               ELSE current_frame + cb.frames
    /\ cb' = CbIdle
    /\ UNCHANGED << len_beat, event_queue, recording, stopping_recording,
                    recorded_track, recorded_tracks_queue, last_beat, status,
                    consumed, trackVars, ctlVars, streamVars, waiting,
                    pushed, fn >>

\* ----------------------------------------- LoopStreamManager, control side
start_recording ==
    /\ pushed < MaxCmds
    /\ pushed' = pushed + 1
    /\ event_queue' =
           Queue_push(event_queue, [ev |-> "START", id |-> pushed + 1])
    /\ UNCHANGED << len_beat, audioVars, recorded_tracks_queue, trackVars,
                    ctlVars, streamVars, waiting, fn >>

\* stop_recording up to its polling loop
stop_recording_push ==
    /\ pushed < MaxCmds
    /\ pushed' = pushed + 1
    /\ event_queue' =
           Queue_push(event_queue, [ev |-> "STOP", id |-> pushed + 1])
    /\ waiting' = waiting \cup {pushed + 1}
    /\ UNCHANGED << len_beat, audioVars, recorded_tracks_queue, trackVars,
                    ctlVars, streamVars, fn >>

\* update_tracks(tracks) with tracks = Lem._tracks, statement by statement:
\* self._tracks_copy = self._tracks
update_tracks_copy ==
    /\ lem_op.pc = "changed"
    /\ tracks_copy_ref' = tracks_ref
    /\ lem_op' = [lem_op EXCEPT !.pc = "copied"]
    /\ UNCHANGED << lem_tracks, tracks_ref, tracks_lock, published, returned >>

\* with self._tracks_lock: the lock is taken
update_tracks_acquire ==
    /\ lem_op.pc = "copied"
    /\ ~tracks_lock
    /\ tracks_lock' = TRUE
    /\ lem_op' = [lem_op EXCEPT !.pc = "locked"]
    /\ UNCHANGED << lem_tracks, tracks_ref, tracks_copy_ref, published,
                    returned >>

\* self._tracks = tracks
update_tracks_assign ==
    /\ lem_op.pc = "locked"
    /\ tracks_ref' = "lem"
    /\ published' = [cur |-> lem_tracks, prev |-> published.cur]
    /\ lem_op' = [lem_op EXCEPT !.pc = "assigned"]
    /\ UNCHANGED << lem_tracks, tracks_copy_ref, tracks_lock, returned >>

\* the lock is released, update_tracks returns and so does the operation of
\* Lem that called it: Lem.stop_recording returns True
update_tracks_release ==
    /\ lem_op.pc = "assigned"
    /\ tracks_lock' = FALSE
    /\ lem_op' = LemIdle
    /\ returned' = IF lem_op.op = "stop"
                   THEN [id |-> lem_op.id, value |-> "True"]
                   ELSE returned
    /\ UNCHANGED << lem_tracks, tracks_ref, tracks_copy_ref, published >>

update_tracks ==
    /\ \/ update_tracks_copy
       \/ update_tracks_acquire
       \/ update_tracks_assign
       \/ update_tracks_release
    /\ UNCHANGED << len_beat, event_queue, recorded_tracks_queue, audioVars,
                    streamVars, waiting, pushed, fn >>

\* self._tracks.append(recorded_track) and self._tracks.pop(idx + 1)
Lem_tracks_prepend(tracks, track) == << track >> \o tracks
Lem_tracks_append(tracks, track) == Append(tracks, track)
Lem_tracks_pop_idx(tracks, i) ==
    SubSeq(tracks, 1, i - 1) \o SubSeq(tracks, i + 1, Len(tracks))
Lem_tracks_pop(tracks, i) ==
    SubSeq(tracks, 1, i) \o SubSeq(tracks, i + 2, Len(tracks))

\* the track with the id of the Stop it was recorded for (bookkeeping)
Committed(track, id) ==
    [data |-> track.data, playing_from_frame |-> track.playing_from_frame,
     g |-> id]

\* Lem.stop_recording once the stream manager's stop_recording came back
\* with res (a track, None or an exception): return False, or append the
\* track and go on to _update_tracks
Lem_stop_recording(id, res, raw_track) ==
    IF res.kind = "track"
    THEN /\ lem_tracks' = Lem_tracks_append(lem_tracks, res.track)
         /\ lem_op' = [pc |-> "changed", op |-> "stop", id |-> id,
                       before |-> lem_tracks, raw |-> raw_track]
         /\ UNCHANGED << tracks_ref, tracks_copy_ref, tracks_lock,
                         published, returned >>
    ELSE /\ returned' = [id |-> id,
                         value |-> IF res.kind = "none" THEN "False"
                                   ELSE "raised"]
         /\ UNCHANGED << trackVars, lem_op >>

\* the rest of a stop_recording call, through Lem.stop_recording: the poll
\* finds a track, the track is popped and given to post_production
stop_recording_take(id) ==
    /\ id \in waiting
    /\ lem_op.pc = "idle"
    /\ ~Queue_empty(recorded_tracks_queue)
    /\ LET popped == Queue_pop(recorded_tracks_queue)
           raw_track == popped.item
           pp == post_production(raw_track, len_beat)
           res == IF pp.kind = "track"
                  THEN [kind |-> "track",
                        track |-> Committed(pp.track, raw_track.g.stopId)]
                  ELSE pp
       IN  /\ recorded_tracks_queue' = popped.items
           /\ waiting' = waiting \ {id}
           /\ Lem_stop_recording(id, res, raw_track)
    /\ UNCHANGED << len_beat, event_queue, audioVars, streamVars, pushed,
                    fn >>

\* Lem.delete_track(idx) up to _update_tracks, for the index of a user track
delete_track(idx) ==
    /\ lem_op.pc = "idle"
    /\ idx \in 0..(Len(lem_tracks) - 2)
    /\ lem_tracks' = Lem_tracks_pop(lem_tracks, idx + 1)
    /\ lem_op' = [pc |-> "changed", op |-> "delete", id |-> idx,
                  before |-> lem_tracks, raw |-> NewRecordedTrack]
    /\ UNCHANGED << tracks_ref, tracks_copy_ref, tracks_lock, published,
                    returned >>
    /\ UNCHANGED << len_beat, event_queue, recorded_tracks_queue, audioVars,
                    streamVars, waiting, pushed, fn >>

\* the running program: the stream thread calls the callback while callers
\* of the control side start and stop recordings and delete tracks; the
\* operations of Lem on its track list run one at a time
Next ==
    \/ \E frames \in 1..len_beat : \E underflow \in BOOLEAN :
          Callback(frames, underflow)
    \/ Callback_mix
    \/ start_recording
    \/ stop_recording_push
    \/ \E id \in waiting : stop_recording_take(id)
    \/ \E idx \in 0..(Len(lem_tracks) - 2) : delete_track(idx)
    \/ update_tracks

Spec == Init /\ [][Next]_vars

\* The control context as the application drives it: one thread (the event
\* loop of the window) that makes one call at a time, so that no call begins
\* while a stop_recording call polls or an update of the track list runs.
ControlFree == waiting = {} /\ lem_op.pc = "idle"

NextSequential ==
    \/ \E frames \in 1..len_beat : \E underflow \in BOOLEAN :
          Callback(frames, underflow)
    \/ Callback_mix
    \/ ControlFree /\ start_recording
    \/ ControlFree /\ stop_recording_push
    \/ \E id \in waiting : stop_recording_take(id)
    \/ \E idx \in 0..(Len(lem_tracks) - 2) : ControlFree /\ delete_track(idx)
    \/ update_tracks

SpecSequential == Init /\ [][NextSequential]_vars

\* the same with threads that keep running: the stream thread keeps calling
\* the callback without underflow and ends a callback it began, and the
\* control thread goes on polling and updating
AudioThreadStep ==
    \/ \E frames \in 1..len_beat : Callback(frames, FALSE)
    \/ Callback_mix
ControlThreadStep ==
    \/ \E id \in waiting : stop_recording_take(id)
    \/ update_tracks

SpecSequentialFair ==
    /\ SpecSequential
    /\ WF_vars(AudioThreadStep)
    /\ WF_vars(ControlThreadStep)


\* ================================================================== claims
\* the tracks of the output queue, and those together with the capture
QueuedTracks ==
    { recorded_tracks_queue[i] : i \in 1..Len(recorded_tracks_queue) }
Captures == QueuedTracks \cup {recorded_track}

\* this step is a cycle that popped the command at the head of the queue
Consumes(ev) ==
    /\ event_queue # << >>
    /\ Head(event_queue).ev = ev
    /\ consumed' = Append(consumed, Head(event_queue).id)

\* the frame count of the cycle that a step popping a command begins
StepFrames == cb'.frames

\* C1: the commands are popped in the order they were pushed, none dropped
\* or duplicated (the ids popped so far followed by the ids still queued are
\* 1, 2, .. up to the number pushed), and a step pops at most one command,
\* which is the one at the head of the queue.
C1_CommandsInOrder ==
    [][ /\ consumed' \o [i \in 1..Len(event_queue') |-> event_queue'[i].id]
           = [i \in 1..pushed' |-> i]
        /\ Len(consumed') <= Len(consumed) + 1
        /\ Len(consumed') = Len(consumed) + 1 =>
              /\ event_queue # << >>
              /\ consumed' = Append(consumed, Head(event_queue).id)
              /\ event_queue' = Tail(event_queue) ]_vars

\* several commands were waiting when the first was popped
C1_Witness ==
    /\ consumed = << 1 >>
    /\ Len(event_queue) = 2
    /\ status = "ok"

\* C2: a Stop popped while Recording in the first half of the beat (midpoint
\* included) sets stop_rec_time, appends len_beat - position zeros, pushes
\* that one track in the same cycle without the cycle's input and leaves the
\* machine Idle; at any other position the Stop handler sets stop_rec_time,
\* pushes nothing and leaves the machine Draining, so that the cycle either
\* ends Draining or, when it reaches the beat, pushes the capture with the
\* cycle's input (cut at the beat) rather than with padding.
C2_StopWhileRecording ==
    [][ (Consumes("STOP") /\ recording /\ ~stopping_recording) =>
        LET pos == current_frame % len_beat
            n == Len(recorded_tracks_queue)
            s0 == [recording |-> recording,
                   stopping_recording |-> stopping_recording,
                   recorded_track |-> recorded_track,
                   recorded_tracks_queue |-> recorded_tracks_queue]
            mid == HandleEvent(s0, Head(event_queue), current_frame,
                               len_beat, last_beat)
        IN  IF pos <= len_beat \div 2
            THEN /\ Len(recorded_tracks_queue') = n + 1
                 /\ SubSeq(recorded_tracks_queue', 1, n)
                       = recorded_tracks_queue
                 /\ recorded_tracks_queue'[n + 1].stop_rec_time
                       = current_frame
                 /\ recorded_tracks_queue'[n + 1].data
                       = recorded_track.data \o Zeros(len_beat - pos)
                 /\ ~recording' /\ ~stopping_recording'
                 /\ recorded_track'.data = << >>
            ELSE /\ mid.recorded_tracks_queue = recorded_tracks_queue
                 /\ mid.recording /\ mid.stopping_recording
                 /\ mid.recorded_track.stop_rec_time = current_frame
                 /\ mid.recorded_track.data = recorded_track.data
                 /\ IF pos + StepFrames < len_beat
                    THEN /\ recorded_tracks_queue' = recorded_tracks_queue
                         /\ recording' /\ stopping_recording'
                         /\ recorded_track'.stop_rec_time = current_frame
                         /\ recorded_track'.data = recorded_track.data
                               \o Input(current_frame, StepFrames)
                    ELSE /\ Len(recorded_tracks_queue') = n + 1
                         /\ recorded_tracks_queue'[n + 1].stop_rec_time
                               = current_frame
                         /\ LET got == recorded_tracks_queue'[n + 1].data
                                full == recorded_track.data
                                          \o Input(current_frame, StepFrames)
                            IN  /\ Len(got) <= Len(full)
                                /\ got = SubSeq(full, 1, Len(got))
                         /\ ~recording' /\ ~stopping_recording' ]_vars

\* a recording stopped exactly at the midpoint of a beat was pushed at once
C2_Witness ==
    /\ ~recording /\ ~stopping_recording
    /\ \E t \in QueuedTracks :
          /\ t.g.startId > 0
          /\ t.stop_rec_time % len_beat = len_beat \div 2
          /\ t.data[Len(t.data)] = 0
          /\ Len(t.data) = t.stop_rec_time - t.first_frame_time
                              + (len_beat - len_beat \div 2)

C4_PushedTracksComplete ==
    \A t \in QueuedTracks :
        /\ RecordedTrack_is_complete(t)
        /\ post_production(t, len_beat).kind # "error"

\* C5: a cycle flagged with output underflow writes an all-zero block and
\* changes neither the command queue nor the recording flags, the capture,
\* the output queue, the pre-roll buffer or the frame counter.
C5_UnderflowCycle ==
    [][ (status' = "underflow" /\ << outdata, status >>' # << outdata, status >>)
        => /\ \A i \in 1..Len(outdata') : outdata'[i] = 0
           /\ Len(outdata') >= 1
           /\ UNCHANGED << event_queue, consumed, recording,
                           stopping_recording, recorded_track,
                           recorded_tracks_queue, last_beat,
                           current_frame >> ]_vars

\* an underflow cycle ran with a command waiting and a capture active
C5_Witness ==
    /\ status = "underflow"
    /\ outdata = Zeros(len_beat - 1)
    /\ recording
    /\ event_queue # << >>
    /\ current_frame > 0


\* the whole-beat boundaries nearest to frame x (two of them at a midpoint)
NearestBeats(x, B) ==
    LET lo == x - (x % B)
    IN  IF 2 * (x % B) < B THEN {lo}
        ELSE IF 2 * (x % B) > B THEN {lo + B}
        ELSE {lo, lo + B}

\* C6: a recording made by a Start popped at frame c and the next command, a
\* Stop, popped at a later frame s is committed as the track from the beat
\* nearest to c to the beat nearest to s, and as no track when the two are
\* the same beat.
C6_NearestBeats ==
    \A t \in QueuedTracks :
        (/\ t.g.startId > 0
         /\ t.g.stopId = t.g.startId + 1
         /\ t.stop_rec_time > t.start_rec_time) =>
            LET res == post_production(t, len_beat)
            IN  \E a \in NearestBeats(t.start_rec_time, len_beat) :
                \E b \in NearestBeats(t.stop_rec_time, len_beat) :
                    \/ a = b /\ res.kind = "none"
                    \/ /\ a < b
                       /\ res.kind = "track"
                       /\ res.track.playing_from_frame = a
                       /\ Len(res.track.data) = b - a

\* ----------------------------------------------- functions under test
\* data of n frames, each unlike the others
Frames(n) == [i \in 1..n |-> 10 + i]
Times == {None} \cup 0..MaxArgTime

\* post_production on any capture, complete or not, aligned or not
InitPostProduction ==
    /\ InitLem(MaxLenBeat, MetronomeSample)
    /\ \E B \in 2..MaxArgBeat : \E n \in 0..MaxArgLen :
       \E first, start, stop \in Times :
          fn = [op |-> "post_production_args", len_beat |-> B,
                recorded_track |->
                   [NewRecordedTrack EXCEPT !.data = Frames(n),
                                            !.first_frame_time = first,
                                            !.start_rec_time = start,
                                            !.stop_rec_time = stop]]

CallPostProduction ==
    /\ fn.op = "post_production_args"
    /\ fn' = [op |-> "post_production", len_beat |-> fn.len_beat,
              recorded_track |-> fn.recorded_track,
              res |-> post_production(fn.recorded_track, fn.len_beat)]
    /\ UNCHANGED << len_beat, event_queue, recorded_tracks_queue, audioVars,
                    trackVars, ctlVars, streamVars, waiting, pushed >>

SpecPostProduction == InitPostProduction /\ [][CallPostProduction]_vars

\* PlayingTrack.slice on any track, from any frame, negative frames included
InitSlice ==
    /\ InitLem(MaxLenBeat, MetronomeSample)
    /\ \E n \in 1..MaxArgLen : \E from \in 0..MaxArgTime :
       \E from_frame \in (0 - 2 * MaxArgLen)..(2 * MaxArgLen) :
       \E frames \in 0..(n + 1) :
          fn = [op |-> "slice_args", track |-> PlayingTrack(Frames(n), from),
                from_frame |-> from_frame, frames |-> frames]

CallSlice ==
    /\ fn.op = "slice_args"
    /\ fn' = [op |-> "slice", track |-> fn.track,
              from_frame |-> fn.from_frame, frames |-> fn.frames,
              res |-> PlayingTrack_slice(fn.track, fn.from_frame, fn.frames)]
    /\ UNCHANGED << len_beat, event_queue, recorded_tracks_queue, audioVars,
                    trackVars, ctlVars, streamVars, waiting, pushed >>

SpecSlice == InitSlice /\ [][CallSlice]_vars

\* C7: for a complete capture whose data length is a multiple of the beat
\* length, post_production does not fail and the track it returns, if any,
\* is not empty, a multiple of the beat length long and no longer than the
\* capture.
C7_QuantizedLength ==
    (/\ fn.op = "post_production"
     /\ RecordedTrack_is_complete(fn.recorded_track)
     /\ Len(fn.recorded_track.data) % fn.len_beat = 0) =>
        /\ fn.res.kind \in {"track", "none"}
        /\ fn.res.kind = "track" =>
              /\ Len(fn.res.track.data) > 0
              /\ Len(fn.res.track.data) % fn.len_beat = 0
              /\ Len(fn.res.track.data) <= Len(fn.recorded_track.data)

\* a three-beat capture was cut to the one beat in its middle
C7_Witness ==
    /\ fn.op = "post_production"
    /\ fn.len_beat = 2
    /\ RecordedTrack_is_complete(fn.recorded_track)
    /\ Len(fn.recorded_track.data) = 6
    /\ fn.res.kind = "track"
    /\ fn.res.track.data = << 13, 14 >>

\* a capture that is complete and aligned to the beat at both ends
Aligned ==
    /\ fn.op = "post_production"
    /\ RecordedTrack_is_complete(fn.recorded_track)
    /\ fn.recorded_track.start_rec_time
          - fn.recorded_track.first_frame_time = 0
    /\ (fn.recorded_track.stop_rec_time
          - fn.recorded_track.first_frame_time) % fn.len_beat = 0
    /\ Len(fn.recorded_track.data) % fn.len_beat = 0

\* C8 as stated: post_production returns an aligned capture unchanged, from
\* first_frame_time and with the same data.
C8_AlignedUnchanged ==
    Aligned =>
        /\ fn.res.kind = "track"
        /\ fn.res.track.playing_from_frame
              = fn.recorded_track.first_frame_time
        /\ fn.res.track.data = fn.recorded_track.data

\* C8 amended: for a beat of at least two frames, post_production keeps the
\* start of an aligned capture and drops its last beat: the track plays from
\* first_frame_time and holds the data without its last len_beat frames, and
\* there is no track when the data is one beat long.
C8_AlignedDropsLastBeat ==
    (Aligned /\ fn.len_beat >= 2) =>
        LET data == fn.recorded_track.data
            n == Len(data)
        IN  IF n = fn.len_beat
            THEN fn.res.kind = "none"
            ELSE /\ fn.res.kind = "track"
                 /\ fn.res.track.playing_from_frame
                       = fn.recorded_track.first_frame_time
                 /\ fn.res.track.data = SubSeq(data, 1, n - fn.len_beat)

\* an aligned capture of two beats came back as its first beat
C8_Witness ==
    /\ Aligned
    /\ fn.len_beat = 3
    /\ Len(fn.recorded_track.data) = 6
    /\ fn.recorded_track.stop_rec_time > fn.recorded_track.start_rec_time
    /\ fn.res.kind = "track"
    /\ fn.res.track.data = << 11, 12, 13 >>

\* C9: slice(from_frame, frames) with 1 <= frames <= length returns frames
\* samples, the i-th (from 0) being
\* data[(from_frame - playing_from_frame + i) mod length].
C9_SliceIsCircularWindow ==
    (/\ fn.op = "slice"
     /\ 1 <= fn.frames
     /\ fn.frames <= Len(fn.track.data)) =>
        /\ Len(fn.res) = fn.frames
        /\ \A i \in 0..(fn.frames - 1) :
              fn.res[i + 1] =
                 fn.track.data[((fn.from_frame - fn.track.playing_from_frame
                                   + i) % Len(fn.track.data)) + 1]

\* C10: slice(f, n) with n <= length is the same as slice(f + k * length, n)
\* for every integer k.
C10_SlicePeriodic ==
    (/\ fn.op = "slice"
     /\ fn.frames <= Len(fn.track.data)) =>
        \A k \in (0 - MaxPeriods)..MaxPeriods :
            PlayingTrack_slice(fn.track,
                               fn.from_frame + k * Len(fn.track.data),
                               fn.frames) = fn.res

\* a window that starts before the track does and wraps around its end
C10_Witness ==
    /\ fn.op = "slice"
    /\ fn.from_frame < 0
    /\ Len(fn.track.data) = 3
    /\ fn.track.playing_from_frame = 1
    /\ fn.frames = 2
    /\ fn.res = << 13, 11 >>

\* ------------------------------------------ AudioCircularBuffer under test
\* a buffer of any capacity, written to in calls of any length, one frame
\* over the capacity included; the k-th frame ever accepted is 20 + k
InitBuffer ==
    /\ InitLem(MaxLenBeat, MetronomeSample)
    /\ \E capacity \in 1..MaxCapacity :
          fn = [op |-> "buffer", buf |-> NewAudioCircularBuffer(capacity),
                before |-> NewAudioCircularBuffer(capacity),
                data |-> << >>, err |-> FALSE, written |-> << >>]

CallWrite ==
    /\ fn.op = "buffer"
    /\ \E n \in 0..(Len(fn.buf.data) + 1) :
          /\ Len(fn.written) + n <= MaxWritten
          /\ LET data == [i \in 1..n |-> 20 + Len(fn.written) + i]
                 w == AudioCircularBuffer_write(fn.buf, data)
             IN  fn' = [op |-> "buffer", buf |-> w.buf, before |-> fn.buf,
                        data |-> data, err |-> w.err,
                        written |-> IF w.err THEN fn.written
                                    ELSE fn.written \o data]
    /\ UNCHANGED << len_beat, event_queue, recorded_tracks_queue, audioVars,
                    trackVars, ctlVars, streamVars, waiting, pushed >>

SpecBuffer == InitBuffer /\ [][CallWrite]_vars

\* C11: after any sequence of writes, the cursor is the number of frames
\* written modulo the capacity, and start_to_index() is the last `cursor`
\* frames written, in the order they were written.
C11_BufferHoldsRecent ==
    fn.op = "buffer" =>
        LET capacity == Len(fn.buf.data)
            total == Len(fn.written)
            cursor == AudioCircularBuffer_position(fn.buf)
        IN  /\ cursor = total % capacity
            /\ AudioCircularBuffer_start_to_index(fn.buf)
                  = SubSeq(fn.written, total - cursor + 1, total)

\* capacity + 2 frames went into a buffer of three, the last write wrapping
C11_Witness ==
    /\ fn.op = "buffer"
    /\ Len(fn.buf.data) = 3
    /\ Len(fn.written) = 5
    /\ fn.before.index = 2
    /\ Len(fn.data) = 3
    /\ AudioCircularBuffer_start_to_index(fn.buf) = << 24, 25 >>

\* C12: a write of more frames than the capacity raises and leaves the
\* content and the cursor as they were; a write of exactly the capacity is
\* accepted and leaves the cursor where it was.
C12_OversizeWriteRejected ==
    fn.op = "buffer" =>
        /\ Len(fn.data) > Len(fn.buf.data) =>
              fn.err /\ fn.buf = fn.before
        /\ Len(fn.data) <= Len(fn.buf.data) => ~fn.err
        /\ Len(fn.data) = Len(fn.buf.data) =>
              /\ fn.buf.index = fn.before.index
              /\ \A i \in 1..Len(fn.data) :
                    \E j \in 1..Len(fn.data) : fn.buf.data[j] = fn.data[i]

\* a write one frame over the capacity was refused by a buffer in use
C12_Witness ==
    /\ fn.op = "buffer"
    /\ fn.err
    /\ Len(fn.data) = Len(fn.buf.data) + 1
    /\ fn.before.index > 0
    /\ fn.buf = fn.before
    /\ Len(fn.written) > Len(fn.buf.data)

\* ------------------------------------------------- claims on the control side
\* C13: Lem.stop_recording returns True only for a call whose raw track
\* post_production turned into a track, and then the track list is the list
\* as it was when the call took the raw track, followed by that one track,
\* and it is the list the engine holds, published and unlocked; it returns
\* False only when post_production returned no track, and then the track
\* list, the references of the engine and the published content are as they
\* were.
C13_StopRecordingReturn ==
    [][ returned' # returned =>
          IF returned'.value = "True"
          THEN /\ lem_op.op = "stop"
               /\ lem_op.id = returned'.id
               /\ LET pp == post_production(lem_op.raw, len_beat)
                      n == Len(lem_op.before)
                  IN  /\ pp.kind = "track"
                      /\ Len(lem_tracks') = n + 1
                      /\ SubSeq(lem_tracks', 1, n) = lem_op.before
                      /\ lem_tracks'[n + 1].data = pp.track.data
                      /\ lem_tracks'[n + 1].playing_from_frame
                            = pp.track.playing_from_frame
               /\ tracks_ref' = "lem"
               /\ published'.cur = lem_tracks'
               /\ ~tracks_lock'
          ELSE /\ recorded_tracks_queue # << >>
               /\ post_production(Head(recorded_tracks_queue), len_beat).kind
                     = IF returned'.value = "False" THEN "none" ELSE "error"
               /\ UNCHANGED trackVars ]_vars

\* a recording was committed: the call returned True and the list holds the
\* metronome and the new track
C13_Witness ==
    /\ returned.value = "True"
    /\ lem_op.pc = "idle"
    /\ Len(lem_tracks) = 2
    /\ lem_tracks[2].g = returned.id
    /\ published.cur = lem_tracks

\* C14: a stop_recording call that polls returns in the end, as long as
\* the stream goes on: unless the callback raised, or the frames explored
\* ended before the Stop was popped or before the capture drained to the
\* beat.  (The control thread makes one call at a time: the call that polls
\* is the one that returns.)
C14_StopCallsReturn ==
    (waiting # {}) ~>
        \/ ControlFree /\ returned.id = pushed
        \/ callback_raised
        \/ /\ current_frame = MaxFrames
           /\ event_queue # << >> \/ stopping_recording

\* the call of the second command, a Stop popped in the second half of a
\* beat, waited for the capture to drain to the beat and then returned
C14_Witness ==
    /\ returned.id = 2
    /\ returned.value \in {"True", "False"}
    /\ consumed = << 1, 2 >>
    /\ current_frame = len_beat
    /\ ~callback_raised
    /\ waiting = {}

\* C15: the raw track a stop_recording call pops was finalized for the Stop
\* that this call pushed.
C15_TakesOwnTrack ==
    [][ \A id \in waiting :
          (id \notin waiting' /\ recorded_tracks_queue # << >>) =>
              Head(recorded_tracks_queue).g.stopId = id ]_vars

\* the call of the third command took the track of its Stop, which holds
\* the recording the second command started
C15_Witness ==
    /\ lem_op.pc = "changed"
    /\ lem_op.op = "stop"
    /\ lem_op.id = 3
    /\ lem_op.raw.g.stopId = 3
    /\ lem_op.raw.g.startId = 2
    /\ recorded_tracks_queue = << >>

\* C17: a list the engine holds, as its track set or as its backup, does
\* not change content while the engine holds it.
C17_PublishedNeverMutated ==
    [][ /\ tracks_ref' = tracks_ref =>
              Deref(tracks_ref)' = Deref(tracks_ref)
        /\ tracks_copy_ref' = tracks_copy_ref =>
              Deref(tracks_copy_ref)' = Deref(tracks_copy_ref) ]_vars

\* C18: the list a cycle mixes has the content of the last publication or
\* of the one before it.
C18_MixesPublishedSet ==
    [][ (cb.pc = "probed" /\ cb'.pc = "idle") =>
          TracksRead(cb.locked) \in {published.cur, published.prev} ]_vars

\* ------------------------------------------------ track list under test
\* The track list with several user tracks, as the control thread changes
\* it: the stream manager's stop_recording is taken to return any of a few
\* results (no track, or a track of one beat playing from frame 0 or from
\* the second beat) without the recording that leads to it; calls are
\* counted as the Stops they push, and the k-th frame of the track of call g
\* is 10 * g + k.
ReturnedTracks(g) ==
    { Committed(PlayingTrack([k \in 1..len_beat |-> 10 * g + k], from), g) :
        from \in {0, len_beat} }

CallLemStopRecording ==
    /\ lem_op.pc = "idle"
    /\ pushed < MaxCmds
    /\ pushed' = pushed + 1
    /\ \E res \in {[kind |-> "none"]}
                    \cup {[kind |-> "track", track |-> t] :
                             t \in ReturnedTracks(pushed + 1)} :
          Lem_stop_recording(pushed + 1, res, NewRecordedTrack)
    /\ UNCHANGED << len_beat, event_queue, recorded_tracks_queue, audioVars,
                    streamVars, waiting, fn >>

NextTrackList ==
    \/ CallLemStopRecording
    \/ \E idx \in 0..(Len(lem_tracks) - 2) : delete_track(idx)
    \/ update_tracks

SpecTrackList == Init /\ [][NextTrackList]_vars

\* C16: position 0 of the track list is always the metronome; a
\* delete_track(i) for the index of a user track removes exactly list
\* position i + 1 and leaves the others as they were; and the user tracks of
\* the list are in the order they were committed (ids ascending).
C16_DeleteTrack ==
    [][ /\ lem_tracks'[1] = initialize_metronome(MetronomeSample, len_beat)
        /\ (lem_op.pc = "idle" /\ lem_op'.pc = "changed"
              /\ lem_op'.op = "delete") =>
              LET i == lem_op'.id
              IN  /\ Len(lem_tracks') = Len(lem_tracks) - 1
                  /\ \A k \in 1..Len(lem_tracks') :
                        lem_tracks'[k] = IF k <= i + 1 THEN lem_tracks[k]
                                         ELSE lem_tracks[k + 1]
        /\ \A j, k \in 2..Len(lem_tracks') :
              j < k => lem_tracks'[j].g < lem_tracks'[k].g ]_vars

\* of three user tracks the middle one was deleted: the first and the third
\* remain, in that order, after the metronome
C16_Witness ==
    /\ lem_op.pc = "changed"
    /\ lem_op.op = "delete"
    /\ lem_op.id = 1
    /\ Len(lem_op.before) = 4
    /\ lem_tracks = << lem_op.before[1], lem_op.before[2], lem_op.before[4] >>
    /\ lem_tracks[2].g < lem_tracks[3].g

\* the sample of a track that plays in a loop at global frame f
LoopSample(track, f) ==
    track.data[((f - track.playing_from_frame) % Len(track.data)) + 1]

\* the sum of the input and of the looped sample of every track of the list
\* at the i-th frame of a cycle that begins at frame cur
RECURSIVE SumAt(_, _, _)
SumAt(tracks, cur, i) ==
    IF tracks = << >> THEN cur + i
    ELSE LoopSample(tracks[Len(tracks)], cur + i - 1)
            + SumAt(SubSeq(tracks, 1, Len(tracks) - 1), cur, i)

\* this step ends a cycle that was not flagged with underflow
MixStep == cb.pc = "probed" /\ cb'.pc = "idle"

\* C20 as stated: every cycle without underflow writes an output, each
\* sample of which is the arithmetic mean of the input sample and the
\* looped samples of the tracks of the list read in that cycle.
C20_OutputIsMean ==
    [][ MixStep =>
          LET tracks == TracksRead(cb.locked)
          IN  /\ ~callback_raised'
              /\ Len(outdata') = cb.frames
              /\ \A i \in 1..cb.frames :
                    outdata'[i] * (Len(tracks) + 1)
                       = SumAt(tracks, current_frame, i) ]_vars

\* C20 amended: in a cycle without underflow whose block is shorter than
\* every track of the list read, each output sample is that mean cut to an
\* integer toward zero; in a cycle whose block is at least as long as a track
\* of the list the callback raises and writes nothing.
C20_OutputIsTruncatedMean ==
    [][ MixStep =>
          LET tracks == TracksRead(cb.locked)
              n == Len(tracks) + 1
          IN  IF \E k \in 1..Len(tracks) : Len(tracks[k].data) <= cb.frames
              THEN callback_raised' /\ UNCHANGED << outdata, current_frame >>
              ELSE /\ ~callback_raised'
                   /\ Len(outdata') = cb.frames
                   /\ \A i \in 1..cb.frames :
                         LET sum == SumAt(tracks, current_frame, i)
                             q == outdata'[i]
                         IN  IF sum >= 0
                             THEN q * n <= sum /\ sum < q * n + n
                             ELSE q * n >= sum /\ sum > q * n - n ]_vars

\* a cycle of one frame mixed the input with the metronome and a recorded
\* track, and the mean of the three was not a whole number
C20_Witness ==
    /\ cb.pc = "idle"
    /\ lem_op.pc = "idle"
    /\ status = "ok"
    /\ ~callback_raised
    /\ Len(lem_tracks) = 2
    /\ published.cur = lem_tracks
    /\ published.prev # lem_tracks
    /\ Len(outdata) = 1
    /\ current_frame >= 1
    /\ outdata[1] = TruncDiv(SumAt(lem_tracks, current_frame - 1, 1), 3)
    /\ SumAt(lem_tracks, current_frame - 1, 1) % 3 # 0

\* ---------------------------------------------- start and end of the stream
\* start_stream: the thread is made and started; it runs main, which opens
\* the stream
start_stream ==
    /\ stream_thread = "none"
    /\ stream_thread' = "running"
    /\ UNCHANGED << len_beat, event_queue, recorded_tracks_queue, audioVars,
                    trackVars, ctlVars, stream_active, end_stream_pc,
                    waiting, pushed, fn >>

\* end_stream up to the join: the flag is cleared, and the call is over when
\* there is no thread
end_stream ==
    /\ end_stream_pc = "idle"
    /\ stream_active' = FALSE
    /\ end_stream_pc' = IF stream_thread = "none" THEN "returned"
                        ELSE "joining"
    /\ UNCHANGED << len_beat, event_queue, recorded_tracks_queue, audioVars,
                    trackVars, ctlVars, stream_thread, waiting, pushed, fn >>

\* main: the loop finds the flag cleared, the with block closes the stream
\* (which lets a callback that runs end) and the thread ends
main_exit ==
    /\ stream_thread = "running"
    /\ ~stream_active
    /\ cb.pc = "idle"
    /\ stream_thread' = "terminated"
    /\ UNCHANGED << len_beat, event_queue, recorded_tracks_queue, audioVars,
                    trackVars, ctlVars, stream_active, end_stream_pc,
                    waiting, pushed, fn >>

\* self._stream_thread.join() returns and so does end_stream
end_stream_join_nowait ==
    /\ end_stream_pc = "joining"
    /\ end_stream_pc' = "joined"
    /\ UNCHANGED << len_beat, event_queue, recorded_tracks_queue, audioVars,
                    trackVars, ctlVars, stream_active, stream_thread,
                    waiting, pushed, fn >>

end_stream_join ==
    /\ end_stream_pc = "joining"
    /\ stream_thread = "terminated"
    /\ end_stream_pc' = "joined"
    /\ UNCHANGED << len_beat, event_queue, recorded_tracks_queue, audioVars,
                    trackVars, ctlVars, stream_active, stream_thread,
                    waiting, pushed, fn >>

\* the stream manager from before start_stream on
InitLifecycle ==
    /\ \E B \in LenBeats : InitManager(B, MetronomeSample)
    /\ stream_thread = "none"
    /\ fn = NoFn

NextLifecycle ==
    \/ start_stream
    \/ end_stream
    \/ main_exit
    \/ end_stream_join
    \/ \E frames \in 1..len_beat : \E underflow \in BOOLEAN :
          Callback(frames, underflow)
    \/ Callback_mix

SpecLifecycle == InitLifecycle /\ [][NextLifecycle]_vars

\* the threads keep running: the stream thread ends a callback it began and
\* gets to test the flag, and the control thread gets out of the join
SpecLifecycleFair ==
    /\ SpecLifecycle
    /\ WF_vars(Callback_mix)
    /\ WF_vars(main_exit)
    /\ WF_vars(end_stream_join)

\* C19: end_stream called before the stream was started returns without
\* waiting; called with the stream started it returns in the end, only once
\* the stream thread has ended, and no step of an audio cycle is taken after
\* it returned.
C19_EndStream ==
    /\ [][ (end_stream_pc = "idle" /\ end_stream_pc' # "idle"
              /\ stream_thread = "none") =>
              end_stream_pc' = "returned" ]_vars
    /\ [](end_stream_pc = "joined" => stream_thread = "terminated")
    /\ [][ end_stream_pc = "joined" => UNCHANGED audioVars ]_vars
    /\ (end_stream_pc = "joining") ~> (end_stream_pc = "joined")

\* the stream ran some cycles, then end_stream was called and returned after
\* the thread had ended
C19_Witness ==
    /\ end_stream_pc = "joined"
    /\ stream_thread = "terminated"
    /\ ~stream_active
    /\ current_frame > 0
    /\ current_frame < MaxFrames
    /\ cb.pc = "idle"

\* ------------------------------------------------ configuration (LemApp)
SAMPLERATE == 44100
OtherRate == 48000

\* int(60*SAMPLERATE/bpm): the quotient of the float division with its
\* fraction dropped (for bpm in 1..400 the float quotient of two whole
\* numbers below 2^53 never reaches the next whole number)
Lem_len_beat_round(bpm) == (2 * 60 * SAMPLERATE + bpm) \div (2 * bpm)
Lem_len_beat(bpm) == (60 * SAMPLERATE) \div bpm

\* what sf.read does with the metronome file: it raises LibsndfileError or
\* TypeError, or gives the sample and its rate
FileOutcomes ==
    {[kind |-> "LibsndfileError"], [kind |-> "TypeError"]}
        \cup {[kind |-> "read", samplerate |-> r] : r \in {SAMPLERATE, OtherRate}}

\* Lem.__init__ as far as the application keeps it: the exception raised, or
\* the new Lem with its beat length, the metronome as its only track and the
\* stream thread started (the content of the track is initialize_metronome)
Lem_init(bpm, file) ==
    LET len_beat_ == Lem_len_beat(bpm)
    IN  IF file.kind # "read" THEN [raised |-> file.kind]
        ELSE IF file.samplerate # SAMPLERATE
        THEN [raised |-> "InvalidSamplerateError"]
        ELSE [raised |-> "none",
              lem |-> [len_beat |-> len_beat_, tracks |-> 1,
                       stream_thread |-> "running", events |-> 0]]

NoLem == [len_beat |-> 0, tracks |-> 0, stream_thread |-> "none",
          events |-> 0]

\* LemApp after __init__: no state object, the set BPM button in the app
\* bar, the record button disabled
NewLemApp ==
    [op |-> "app", lem_state |-> NoLem, dialog_button |-> TRUE,
     popup |-> FALSE, bpm_lbl |-> 0, record_button |-> "disabled",
     record_state |-> "waiting", err |-> "none", entry |-> 0 - 1]

\* LemApp.set_bpm: the handlers of LibsndfileError and of Exception return,
\* the handler of InvalidSamplerateError does not
LemApp_set_bpm(app, bpm, file) ==
    LET r == Lem_init(bpm, file)
        shown == [app EXCEPT !.err = IF r.raised = "TypeError" THEN "Exception"
                                     ELSE r.raised]
    IN  IF r.raised \in {"LibsndfileError", "TypeError"}
        THEN shown
        ELSE [(IF r.raised = "none"
               THEN [app EXCEPT !.lem_state = r.lem, !.err = "none"]
               ELSE shown)
                 EXCEPT !.bpm_lbl = bpm, !.dialog_button = FALSE,
                        !.record_button = "normal"]

BpmPopup_validate(val) == val > 0 /\ val <= 400

harnessRest == << len_beat, event_queue, recorded_tracks_queue, audioVars,
                  trackVars, ctlVars, streamVars, waiting, pushed >>

\* AppBar.invoke_dialog: the set BPM button opens the dialog
invoke_dialog ==
    /\ fn.op = "app"
    /\ fn.dialog_button
    /\ ~fn.popup
    /\ fn' = [fn EXCEPT !.popup = TRUE]
    /\ UNCHANGED harnessRest

\* BpmPopup.set_bpm: a value that is not valid leaves the dialog open, a
\* valid one goes to LemApp.set_bpm and the dialog is closed
BpmPopup_set_bpm(value, file) ==
    /\ fn.op = "app"
    /\ fn.popup
    /\ fn' = IF ~BpmPopup_validate(value)
             THEN [fn EXCEPT !.entry = value]
             ELSE [LemApp_set_bpm(fn, value, file)
                      EXCEPT !.entry = value, !.popup = FALSE]
    /\ UNCHANGED harnessRest

\* RecordButton._clicked on an enabled button: the callback of the
\* application is called, and when it raises (no state object) the state of
\* the button is not changed
RecordButton_clicked ==
    /\ fn.op = "app"
    /\ fn.record_button = "normal"
    /\ fn' = IF fn.lem_state = NoLem
             THEN [fn EXCEPT !.err = "AttributeError"]
             ELSE [fn EXCEPT !.record_state = IF @ = "waiting" THEN "recording"
                                              ELSE "waiting",
                             !.lem_state.events = (@ + 1) % 2,
                             !.err = "none"]
    /\ UNCHANGED harnessRest

InitConfigure ==
    /\ InitLem(MaxLenBeat, MetronomeSample)
    /\ fn = NewLemApp

NextConfigure ==
    \/ invoke_dialog
    \/ \E value \in 0..MaxBpmArg : \E file \in FileOutcomes :
          BpmPopup_set_bpm(value, file)
    \/ RecordButton_clicked

SpecConfigure == InitConfigure /\ [][NextConfigure]_vars

\* this step is a call of LemApp.set_bpm that made a Lem
ConfigureSucceeds ==
    /\ fn.popup /\ ~fn'.popup
    /\ fn'.lem_state # NoLem
\* this step is a call of LemApp.set_bpm in which Lem(bpm) raised
ConfigureFails ==
    /\ fn.popup /\ ~fn'.popup
    /\ fn'.err # "none"

\* C21 as stated: for every bpm in 1..400 the beat length of the Lem made
\* is 60*44100/bpm rounded to the nearest whole number (either neighbour
\* when the quotient lies half way).
C21_LenBeatRounded ==
    [][ ConfigureSucceeds =>
          LET bpm == fn'.entry
              d == 60 * SAMPLERATE - fn'.lem_state.len_beat * bpm
          IN  2 * d <= bpm /\ 2 * d >= 0 - bpm ]_vars

\* C21 amended: for every bpm in 1..400 the beat length of the Lem made is
\* 60*44100/bpm with the fraction dropped: the largest whole number of
\* frames that is not longer than the beat.
C21_LenBeatTruncated ==
    [][ ConfigureSucceeds =>
          LET bpm == fn'.entry
              L == fn'.lem_state.len_beat
          IN  /\ bpm \in 1..400
              /\ L * bpm <= 60 * SAMPLERATE
              /\ 60 * SAMPLERATE < (L + 1) * bpm ]_vars

\* configured with 31 bpm: 85354 frames, the quotient being 85354.84
C21_Witness ==
    /\ fn.op = "app"
    /\ fn.entry = 31
    /\ fn.bpm_lbl = 31
    /\ fn.lem_state.len_beat = 85354
    /\ fn.lem_state.stream_thread = "running"

\* C22 as stated: when Lem(bpm) fails in set_bpm, the failure is shown, no
\* stream runs, there is still no state object, the record button stays
\* disabled so that no recording can be asked of the missing state object,
\* and the set BPM button is still there to configure again.
C22_FailedConfigure ==
    [][ ConfigureFails =>
          /\ fn'.err \in {"LibsndfileError", "InvalidSamplerateError",
                          "Exception"}
          /\ fn'.lem_state = NoLem
          /\ fn'.lem_state.stream_thread = "none"
          /\ fn'.record_button = "disabled"
          /\ fn'.dialog_button ]_vars

\* C23 as stated: every track in the output queue has a data length that is
\* a multiple of the beat length, whatever commands were pushed and however
\* the frames were split into cycles.
C23_PushedLengthMultiple ==
    \A t \in QueuedTracks : Len(t.data) % len_beat = 0

\* the machine is Draining: a recording whose Stop waits for the beat
Draining == recording /\ stopping_recording

\* this step is the first part of a cycle without underflow
CycleStep == cb.pc = "idle" /\ cb'.pc = "probed"

CleanRecording(t) == t.g.startId > 0 /\ ~t.g.over

\* C25: a recording, i.e. a track of the output queue whose Start was
\* popped at frame c while Idle or Draining and whose Stop was popped at
\* frame s, has s > c,
\* first_frame_time = c - (c mod len_beat) and
\* (s div len_beat + 1) * len_beat - first_frame_time frames, whatever the
\* frame counts of the cycles were: the input from first_frame_time on, up
\* to the beat after s, or up to s and then zeros when s is in the first
\* half of its beat. A track whose last Start was popped while Recording
\* has the same first_frame_time, but holds in front what was captured
\* before that Start and is at least as long.
C25_CaptureExtent ==
    \A t \in QueuedTracks :
        t.g.startId > 0 =>
            LET c == t.start_rec_time
                s == t.stop_rec_time
                first == c - (c % len_beat)
                length == (s \div len_beat + 1) * len_beat - first
            IN  /\ c # None /\ s # None /\ s > c
                /\ t.first_frame_time = first
                /\ IF CleanRecording(t)
                   THEN /\ Len(t.data) = length
                        /\ \A i \in 1..Len(t.data) :
                              t.data[i] =
                                  IF (s % len_beat) <= len_beat \div 2
                                        /\ i > s - first
                                  THEN 0 ELSE first + i
                   ELSE /\ Len(t.data) >= length
                        /\ t.data[1] < c + 1

\* a recording started inside a beat and stopped in its second half was
\* pushed with the pre-roll in front, one beat long
C25_Witness ==
    \E t \in QueuedTracks :
        /\ CleanRecording(t)
        /\ t.start_rec_time % len_beat # 0
        /\ t.stop_rec_time % len_beat > len_beat \div 2
        /\ t.first_frame_time = 0
        /\ t.data = [i \in 1..len_beat |-> i]

\* C26 as stated: every track of the list of Lem, the metronome and every
\* committed track, plays from a frame that is a multiple of the beat length
\* and is a positive multiple of the beat length long.
C26_TracksOnBeatGrid ==
    \A k \in 1..Len(lem_tracks) :
        /\ lem_tracks[k].playing_from_frame % len_beat = 0
        /\ Len(lem_tracks[k].data) > 0
        /\ Len(lem_tracks[k].data) % len_beat = 0

C28_HandedOffUntouched ==
    [][ LET n == Len(recorded_tracks_queue)
        IN  \/ recorded_tracks_queue' = recorded_tracks_queue
            \/ /\ CycleStep
               /\ recorded_tracks_queue'
                     = Append(recorded_tracks_queue, recorded_tracks_queue'[n + 1])
               /\ Len(recorded_tracks_queue') = n + 1
               /\ recorded_track' = NewRecordedTrack
               /\ ~recording' /\ ~stopping_recording'
            \/ /\ n > 0
               /\ recorded_tracks_queue' = Tail(recorded_tracks_queue)
               /\ waiting' # waiting
               /\ UNCHANGED audioVars ]_vars

\* a track waits in the output queue while the next recording, started
\* after it was pushed, has captured input
C28_Witness ==
    /\ Len(recorded_tracks_queue) = 1
    /\ recorded_tracks_queue[1].g.stopId = 2
    /\ recorded_tracks_queue[1].data # << >>
    /\ recording
    /\ recorded_track.g.startId = 3
    /\ Len(recorded_track.data) >= 2
    /\ cb.pc = "idle"

\* ------------------------------------------- Lem.initialize_metronome
\* the samples a metronome file may hold: up to MaxArgLen frames, silent
\* frames among them
MetronomeSamples == UNION { [1..n -> {0, 5}] : n \in 0..MaxArgLen }

InitMetronome ==
    /\ InitLem(MaxLenBeat, MetronomeSample)
    /\ \E sample \in MetronomeSamples : \E B \in 2..MaxArgBeat :
       \E rate \in {SAMPLERATE, OtherRate} :
          fn = [op |-> "metronome_args", sample |-> sample,
                samplerate |-> rate, len_beat |-> B, tracks |-> << >>]

\* Lem.initialize_metronome on the empty list of a new Lem: it raises on
\* another sample rate, else appends the track made of the sample
CallInitializeMetronome ==
    /\ fn.op = "metronome_args"
    /\ fn' = IF fn.samplerate # SAMPLERATE
             THEN [op |-> "metronome", sample |-> fn.sample,
                   samplerate |-> fn.samplerate, len_beat |-> fn.len_beat,
                   tracks |-> fn.tracks, raised |-> TRUE]
             ELSE [op |-> "metronome", sample |-> fn.sample,
                   samplerate |-> fn.samplerate, len_beat |-> fn.len_beat,
                   tracks |-> Lem_tracks_append(
                                  fn.tracks,
                                  initialize_metronome(fn.sample, fn.len_beat)),
                   raised |-> FALSE]
    /\ UNCHANGED harnessRest

SpecMetronome == InitMetronome /\ [][CallInitializeMetronome]_vars

\* C29: after initialize_metronome has succeeded the list holds one track,
\* at index 0, playing from frame 0 and exactly len_beat frames long: the
\* first len_beat frames of a longer sample, or the whole of a shorter one,
\* frame by frame as in the file, followed by zeros.
C29_MetronomeOneBeat ==
    (fn.op = "metronome" /\ ~fn.raised) =>
        LET n == Len(fn.sample)
            B == fn.len_beat
        IN  /\ Len(fn.tracks) = 1
            /\ fn.tracks[1].playing_from_frame = 0
            /\ Len(fn.tracks[1].data) = B
            /\ \A i \in 1..B :
                  fn.tracks[1].data[i] = IF i <= n THEN fn.sample[i] ELSE 0

\* a sample one frame longer than the beat, its last frame not silent, was
\* cut to the beat
C29_Witness ==
    /\ fn.op = "metronome"
    /\ ~fn.raised
    /\ Len(fn.sample) = fn.len_beat + 1
    /\ fn.sample[Len(fn.sample)] = 5
    /\ fn.sample[1] = 0
    /\ Len(fn.tracks) = 1
    /\ Len(fn.tracks[1].data) = fn.len_beat

\* C30: between two cycles of a running stream the cursor of the pre-roll
\* buffer is current_frame mod len_beat and the frames before the cursor
\* are the input of the current beat so far, in order; underflow cycles
\* change neither the buffer nor the counter; and the first_frame_time of
\* every capture a Start has set is a multiple of len_beat.
C30_PreRollFollowsBeat ==
    /\ (cb.pc = "idle" /\ ~callback_raised) =>
          LET pos == current_frame % len_beat
          IN  /\ last_beat.index = pos
              /\ Len(last_beat.data) = len_beat
              /\ AudioCircularBuffer_start_to_index(last_beat)
                    = [i \in 1..pos |-> current_frame - pos + i]
    /\ \A t \in Captures :
          t.first_frame_time # None =>
              /\ t.first_frame_time % len_beat = 0
              /\ t.first_frame_time
                    = t.start_rec_time - (t.start_rec_time % len_beat)

\* the buffer has wrapped: one frame into the second beat the cursor is 1
\* and a recording started on that beat holds that frame
C30_Witness ==
    /\ cb.pc = "idle"
    /\ ~callback_raised
    /\ recorded_track.data = << len_beat + 1 >>
    /\ current_frame = len_beat + 1
    /\ last_beat.index = 1
    /\ recording
    /\ recorded_track.first_frame_time = len_beat

\* C31 as stated: between the cycles of a running stream a capture that is
\* active (Recording or Draining) has first_frame_time set and holds
\* current_frame - first_frame_time frames, whatever commands were popped.
C31_CaptureLength ==
    (cb.pc = "idle" /\ ~callback_raised /\ recording) =>
        /\ recorded_track.first_frame_time # None
        /\ Len(recorded_track.data)
              = current_frame - recorded_track.first_frame_time

\* C32 as stated: frame i of every committed track (every track of the list
\* after the metronome) is the input processed at global frame
\* playing_from_frame + i: no zero added at the Stop and no input frame of
\* another time.
C32_CommittedIsLiveInput ==
    \A k \in 2..Len(lem_tracks) :
        \A i \in 1..Len(lem_tracks[k].data) :
            lem_tracks[k].data[i]
                = Input(lem_tracks[k].playing_from_frame + i - 1, 1)[1]

====
